---- MODULE Spec2Model ----
(***************************************************************************)
(* A model of the agent execution core of apps/api-ai:                     *)
(*   services/agent_service.py  Tool, AgentMemory, Agent                   *)
(* Python values are modelled by what the code does with them: JSON text  *)
(* is parsed by json_loads, results are serialized by json_dumps, and     *)
(* list slices follow Python's slice rules (PySliceFrom).                  *)
(***************************************************************************)
EXTENDS Integers, Sequences, FiniteSets, TLC

VARIABLES
    max_iterations,   \* Agent.max_iterations
    tools,            \* Agent.tools, the list of Tool objects
    tool_registry,    \* Agent.tool_registry, name -> Tool
    max_messages,     \* AgentMemory.max_messages
    memory,           \* AgentMemory.messages
    pc,               \* position of the caller / of Agent.think
    messages,         \* think: the working message sequence
    execution_trace,  \* think: the execution trace
    iteration,        \* think: the iteration counter
    tool_calls,       \* think: the requested calls not yet processed
    result,           \* what think returned to its caller
    event,            \* history: what the last step of think (or of the memory) did
    appended,         \* history: entries passed to add_message since the last clear
    assistant_adds,   \* history: add_message("assistant", ...) calls of the current run
    llm_calls,        \* history: adapter invocations made by the current run
    tool_execs,       \* history: capability invocations made by the current run
    requested,        \* history: tool calls the adapter asked for in the current run
    runs,             \* history: runs started on this agent
    api_params,       \* think: the parameters of the last adapter call
    responses,        \* history: the adapter's responses to the current run
    metadata,         \* AgentMemory.metadata
    got,              \* history: what the memory's last operation returned to its caller
    last_set,         \* history: key -> the value of the last set_metadata(key, value)
    coroutines,       \* the runs of one agent that are in progress together
    cancel_requested, \* whether the caller asked for the run to be cancelled
    doc_text,         \* chunk_text: its parameter text, the text to split
    chunk_size,       \* chunk_text: the size of a chunk
    overlap,          \* chunk_text: the overlap of two chunks
    chunk_start,      \* chunk_text: its local start, where the next chunk starts
    chunks,           \* chunk_text: the chunks made so far
    stream_source,    \* streaming: what the provider will do, on create and chunk by chunk
    stream_request,   \* streaming: the messages handed to the provider
    stream_pos,       \* streaming: how many items of the provider stream were taken
    events,           \* streaming: the events the generator has yielded
    endpoint,         \* batch: request.endpoint
    requests,         \* batch: request.requests
    batch_pos,        \* batch: how many sub-requests the for loop has taken
    results,          \* batch_process: its local results
    successful,       \* batch_process: its local successful
    failed,           \* batch_process: its local failed
    batch_response,   \* batch: the BatchResponse returned
    execution         \* history: the last call of Tool.execute and what it returned

vars == <<max_iterations, tools, tool_registry, max_messages, memory, pc, messages,
          execution_trace, iteration, tool_calls, result, event, appended, assistant_adds,
          llm_calls, tool_execs, requested, runs, api_params, responses, metadata, got,
          last_set, coroutines,
          cancel_requested,
          doc_text, chunk_size, overlap, chunk_start, chunks, stream_source,
          stream_request, stream_pos, events, endpoint, requests, batch_pos, results,
          successful, failed, batch_response, execution>>

\* the memory's metadata store and what was read from the memory
store == <<metadata, got, last_set>>

\* the adapter calls of a run
query == <<api_params, responses>>

\* RAGService.chunk_text
rag == <<doc_text, chunk_size, overlap, chunk_start, chunks>>

\* the other services of the API
\* the state of a stream of streaming_service.py
stream == <<stream_source, stream_request, stream_pos, events>>

\* the state of a call of batch_process
batch == <<endpoint, requests, batch_pos, results, successful, failed, batch_response>>

services == <<rag, stream, batch>>

\* the state of the other services and of runs in progress together
side == <<coroutines, cancel_requested, execution, services>>

config == <<max_iterations, tools, tool_registry, max_messages>>

(***************************************************************************)
(* Bounds of the model.                                                    *)
(***************************************************************************)
MaxIter == 2       \* largest max_iterations an agent is configured with
MaxCalls == 2      \* most tool calls in one adapter response
MaxRunCalls == 3   \* most tool calls the adapter asks for in one run
MaxRuns == 2       \* runs started on one agent
MaxMsgs == 2       \* largest max_messages a memory is configured with
MaxAppends == 4    \* add_message calls made directly on a memory
MaxTools == 3      \* tools registered with one agent
MaxLastN == 3      \* largest last_n passed to get_messages
MaxConcurrent == 2 \* runs of one agent in progress together
MaxAwaits == 2     \* tool invocations one of those runs awaits
MaxText == 4       \* longest text given to chunk_text, in characters (in overlaps when indexing)
MaxChunkSize == 3  \* largest chunk_size and overlap chunk_text is called with

(***************************************************************************)
(* Python values.                                                          *)
(***************************************************************************)
None == "<None>"

Min(a, b) == IF a < b THEN a ELSE b

Max(a, b) == IF a > b THEN a ELSE b

\* s[start:] for a Python list s
PySliceFrom(s, start) ==
    LET lo == IF start < 0 THEN Max(Len(s) + start, 0) ELSE Min(start, Len(s))
    IN  SubSeq(s, lo + 1, Len(s))

\* s[start:stop] for a Python sequence s
PySlice(s, start_index, stop_index) ==
    LET lo == IF start_index < 0 THEN Max(Len(s) + start_index, 0)
              ELSE Min(start_index, Len(s))
        hi == IF stop_index < 0 THEN Max(Len(s) + stop_index, 0)
              ELSE Min(stop_index, Len(s))
    IN  SubSeq(s, lo + 1, hi)

\* A Python value as far as the agent looks at it: its type, and for a dict
\* its single key and that key's text.
PyValue(type, key, text) == [type |-> type, key |-> key, text |-> text]

EmptyDict == PyValue("dict", "", "")

\* The argument texts an adapter response carries: a JSON object, a JSON
\* array, and text that is not JSON.
ArgumentTexts == {"{}", "[1]", "{"}

\* json.loads(text): the parsed value, or raised (json.JSONDecodeError)
json_loads(text) ==
    CASE text = "{}"  -> [raised |-> FALSE, value |-> EmptyDict]
      [] text = "[1]" -> [raised |-> FALSE, value |-> PyValue("list", "", "1")]
      [] OTHER        -> [raised |-> TRUE, value |-> PyValue("none", "", "JSONDecodeError")]

\* json.dumps(value): the JSON text, or raised (TypeError: not JSON serializable)
json_dumps(value) ==
    CASE value.type = "dict" /\ value.key = "" ->
            [raised |-> FALSE, text |-> "{}"]
      [] value.type = "dict" ->
            [raised |-> FALSE,
             text |-> "{\"" \o value.key \o "\": \"" \o value.text \o "\"}"]
      [] value.type = "list" ->
            [raised |-> FALSE, text |-> "[" \o value.text \o "]"]
      [] OTHER ->
            [raised |-> TRUE, text |-> "TypeError"]

(***************************************************************************)
(* class Tool                                                              *)
(***************************************************************************)
\* A Tool: its name and whether its function is a coroutine function
\* (async def) or an ordinary function.
Tool(name, is_coroutine) == [name |-> name, is_coroutine |-> is_coroutine]

\* Tool.to_openai_format (lines 29-38); description and parameters are the
\* tool's own and are not read by the agent
to_openai_format(tool) == [type |-> "function", function |-> [name |-> tool.name]]

CALCULATOR_TOOL == Tool("calculate", TRUE)

\* What a capability does when called: return a JSON-serializable value,
\* return a value json.dumps rejects, or raise an Exception (a call whose
\* keyword arguments do not fit the function's signature raises TypeError and
\* is one of these).
Behaviours == {"returns", "returns_object", "raises"}

ErrorResult(text) == PyValue("dict", "error", text)

ToolOutput == PyValue("dict", "result", "4")

ToolObject == PyValue("object", "", "")

FunctionValue(behaviour) == IF behaviour = "returns" THEN ToolOutput ELSE ToolObject

\* Tool.execute without its except clause: the capability's exception leaves it
ToolExecuteUncaught(tool, behaviour) ==
    IF behaviour = "raises"
    THEN [raised |-> TRUE, value |-> ErrorResult("capability failed")]
    ELSE [raised |-> FALSE, value |-> FunctionValue(behaviour)]

\* Tool.execute(**kwargs): what the call returns, or raised when an exception
\* leaves it. callable(self.function) is true of every function, so the call's
\* value is always awaited; awaiting the value of an ordinary function raises
\* TypeError inside the try. The except clause turns every exception into a
\* returned {"error": str(e)}.
ToolExecute(tool, behaviour) ==
    IF behaviour = "raises"
    THEN [raised |-> FALSE, value |-> ErrorResult("capability failed")]
    ELSE IF tool.is_coroutine
         THEN [raised |-> FALSE, value |-> FunctionValue(behaviour)]
         ELSE [raised |-> FALSE,
               value |-> ErrorResult("object can't be used in 'await' expression")]

(***************************************************************************)
(* class AgentMemory                                                       *)
(***************************************************************************)
\* The message dict of add_message: role and content. The timestamp is the
\* clock's reading and think passes no metadata; neither is read by the code.
MemoryEntry(role, content) == [role |-> role, content |-> content]

\* An add_message that trims to the first max_messages entries
add_message_keep_first(msgs, maxm, role, content) ==
    LET added == Append(msgs, MemoryEntry(role, content))
    IN  IF Len(added) > maxm THEN SubSeq(added, 1, maxm) ELSE added

\* An add_message that never trims
add_message_no_trim(msgs, maxm, role, content) ==
    Append(msgs, MemoryEntry(role, content))

\* AgentMemory.add_message: append, then trim to the last max_messages
add_message(msgs, maxm, role, content) ==
    LET added == Append(msgs, MemoryEntry(role, content))
    IN  IF Len(added) > maxm THEN PySliceFrom(added, -maxm) ELSE added

\* AgentMemory.metadata after __init__ (line 54): the empty dict
NoMetadata == [key \in {} |-> None]

\* the memory's last operation returned nothing
NoRead == [op |-> "none"]

\* AgentMemory.set_metadata (lines 82-84): self.metadata[key] = value
set_metadata(md, key, value) ==
    [k \in DOMAIN md \cup {key} |-> IF k = key THEN value ELSE md[k]]

\* AgentMemory.get_metadata (lines 86-88): self.metadata.get(key)
get_metadata(md, key) == IF key \in DOMAIN md THEN md[key] ELSE None

\* AgentMemory.get_messages(last_n); given is FALSE when last_n is left None
get_messages(msgs, given, last_n) ==
    IF given /\ last_n # 0 THEN PySliceFrom(msgs, -last_n) ELSE msgs

(***************************************************************************)
(* The model adapter: client.chat.completions.create                       *)
(***************************************************************************)
SystemPrompt == "You are a helpful AI assistant."

\* The tasks given to the n-th run of an agent
Tasks(n) == {"What is 2+" \o ToString(n) \o "?"}

Contents == {"4", None}

FinishReasons == {"stop", "tool_calls"}

Usages == {"usage", None}

\* The calls an adapter response may ask for, as <<name, arguments>>:
\* "calculate" is registered with some agents, "search_web" with none; for a
\* name that is not registered line 176 parses the arguments and nothing
\* reads the parsed value's type.
RequestedCalls ==
    ({"calculate"} \X ArgumentTexts) \cup ({"search_web"} \X {"{}", "{"})

ToolCall(i, name, arguments) ==
    [id |-> "call_" \o ToString(i), name |-> name, arguments |-> arguments]

ToolCallLists ==
    UNION { { [i \in 1..n |-> ToolCall(i, f[i][1], f[i][2])] :
                f \in [1..n -> RequestedCalls] } : n \in 0..MaxCalls }

\* response.choices[0] and response.usage: a response that asks for tool
\* calls, or one that carries none (whatever finish reason it reports)
Responses ==
    [finish_reason : {"tool_calls"}, content : {None},
     tool_calls : ToolCallLists \ {<<>>}, usage : {"usage"}]
    \cup
    [finish_reason : FinishReasons, content : Contents,
     tool_calls : {<<>>}, usage : Usages]

\* line 172: choice.finish_reason == "tool_calls" and message.tool_calls
NeedsTools(response) ==
    response.finish_reason = "tool_calls" /\ response.tool_calls # <<>>

(***************************************************************************)
(* class Agent                                                             *)
(***************************************************************************)
Apology == "I apologize, but I couldn't complete the task within the iteration limit."

NoResult == [status |-> "running"]

\* lines 238-243
ExhaustedResult(iter, trace) ==
    [answer |-> Apology, iterations |-> iter, execution_trace |-> trace,
     error |-> "max_iterations_reached"]

\* lines 217-226
AnswerResult(answer, iter, trace, usage) ==
    [answer |-> answer, iterations |-> iter, execution_trace |-> trace, usage |-> usage]

LlmCallEntry(iter, finish_reason) ==
    [iteration |-> iter, type |-> "llm_call", finish_reason |-> finish_reason]

ToolCallEntry(iter, name, arguments) ==
    [iteration |-> iter, type |-> "tool_call", tool |-> name, arguments |-> arguments]

ToolResultEntry(iter, name, tool_result) ==
    [iteration |-> iter, type |-> "tool_result", tool |-> name, result |-> tool_result]

ErrorEntry(iter, text) ==
    [iteration |-> iter, type |-> "error", error |-> text]

\* lines 199-203
PlaceholderMessage(tool_call) ==
    [role |-> "assistant", content |-> None, tool_calls |-> <<tool_call>>]

\* lines 204-208
ToolMessage(tool_call, text) ==
    [role |-> "tool", tool_call_id |-> tool_call.id, content |-> text]

\* A working list with the system prompt after the replayed memory
BuildMessagesPromptLast(system_prompt, msgs) ==
    [i \in 1..Len(msgs) |-> [role |-> msgs[i].role, content |-> msgs[i].content]] \o
    <<[role |-> "system", content |-> system_prompt]>>

\* lines 133-138
BuildMessages(system_prompt, msgs) ==
    <<[role |-> "system", content |-> system_prompt]>> \o
    [i \in 1..Len(get_messages(msgs, FALSE, 0)) |->
        [role |-> get_messages(msgs, FALSE, 0)[i].role,
         content |-> get_messages(msgs, FALSE, 0)[i].content]]

\* line 155: the catalog built from the list self.tools
Catalog(tool_list) == [i \in 1..Len(tool_list) |-> to_openai_format(tool_list[i])]

\* no adapter call was made yet
NoParams == [messages |-> <<>>]

\* lines 147-156: the parameters of the adapter call; model, temperature and
\* max_tokens are the agent's constants. The catalog is added when the list
\* self.tools is not empty.
ApiParams(msgs, tool_list) ==
    IF tool_list # <<>>
    THEN [messages |-> msgs, tools |-> Catalog(tool_list), tool_choice |-> "auto"]
    ELSE [messages |-> msgs]

ToolConfigs == {<<>>, <<CALCULATOR_TOOL>>}

\* line 112
Registry(tool_list) ==
    [n \in {tool_list[i].name : i \in 1..Len(tool_list)} |->
        tool_list[CHOOSE i \in 1..Len(tool_list) :
            /\ tool_list[i].name = n
            /\ \A j \in 1..Len(tool_list) : tool_list[j].name = n => j <= i]]

\* no run is in progress beside the one of think, and the other services are
\* at rest
IdleCoroutines == coroutines = <<>>

NotCancelled == cancel_requested = FALSE

\* Tool.execute was not called
NoExecution == [tool |-> "none"]

NotExecuted == execution = NoExecution

\* no text is being chunked
NoChunking ==
    /\ doc_text = <<>>
    /\ chunk_size = 0
    /\ overlap = 0
    /\ chunk_start = 0
    /\ chunks = <<>>

\* no stream was asked for
NoSource == [create |-> "none", chunks |-> <<>>]

NoStreaming ==
    /\ stream_source = NoSource
    /\ stream_request = <<>>
    /\ stream_pos = 0
    /\ events = <<>>

\* batch_process has returned nothing
NoBatchResponse == [total |-> "none"]

NoBatch ==
    /\ endpoint = "none"
    /\ requests = <<>>
    /\ batch_pos = 0
    /\ results = <<>>
    /\ successful = 0
    /\ failed = 0
    /\ batch_response = NoBatchResponse

IdleServices ==
    /\ NoChunking
    /\ NoStreaming
    /\ NoBatch

IdleSide ==
    /\ IdleCoroutines
    /\ NotCancelled
    /\ NotExecuted
    /\ IdleServices

\* the agent's and the memory's variables, pc and event apart, as they are when
\* no agent is looked at
AgentAtRest ==
    /\ max_iterations = 10
    /\ tools = <<>>
    /\ tool_registry = Registry(tools)
    /\ max_messages = 50
    /\ memory = <<>>
    /\ appended = <<>>
    /\ messages = <<>>
    /\ execution_trace = <<>>
    /\ iteration = 0
    /\ tool_calls = <<>>
    /\ result = NoResult
    /\ assistant_adds = 0
    /\ llm_calls = 0
    /\ tool_execs = 0
    /\ requested = 0
    /\ runs = 0
    /\ api_params = NoParams
    /\ responses = <<>>
    /\ metadata = NoMetadata
    /\ got = NoRead
    /\ last_set = NoMetadata

\* Agent.__init__ (lines 102-112) with AgentMemory.__init__ (lines 52-54).
\* max_iterations is any int the constructor is given (only the HTTP route
\* validates it); the memory's window, 50 by default, is drawn from 1..MaxMsgs.
Init ==
    /\ max_iterations \in -1..MaxIter
    /\ tools \in ToolConfigs
    /\ tool_registry = Registry(tools)
    /\ max_messages \in 1..MaxMsgs
    /\ memory = <<>>
    /\ pc = "idle"
    /\ messages = <<>>
    /\ execution_trace = <<>>
    /\ iteration = 0
    /\ tool_calls = <<>>
    /\ result = NoResult
    /\ event = "init"
    /\ appended = <<>>
    /\ assistant_adds = 0
    /\ llm_calls = 0
    /\ tool_execs = 0
    /\ requested = 0
    /\ runs = 0
    /\ api_params = NoParams
    /\ responses = <<>>
    /\ metadata = NoMetadata
    /\ got = NoRead
    /\ last_set = NoMetadata
    /\ IdleSide

\* A loop that tests the counter after the increment's bound (<= for <)
LoopContinuesOffByOne(iter, maxi) == iter <= maxi

\* line 143: the while condition
LoopContinues(iter, maxi) == iter < maxi

\* An except clause that records the error and goes on with the loop
\* (continue for break)
AbortAndRetry(trace, text) ==
    /\ execution_trace' = Append(trace, ErrorEntry(iteration', text))
    /\ pc' = "loop"
    /\ UNCHANGED result

\* No except clause: the exception leaves think
AbortEscapes(trace, text) ==
    /\ execution_trace' = Append(trace, ErrorEntry(iteration', text))
    /\ pc' = "raised"
    /\ UNCHANGED result

\* The except clause of think (lines 228-235) followed by the return after
\* the loop (lines 238-243): trace is the trace when the exception was raised.
Abort(trace, text) ==
    /\ execution_trace' = Append(trace, ErrorEntry(iteration', text))
    /\ result' = ExhaustedResult(iteration', execution_trace')
    /\ pc' = "returned"

\* think, lines 129-141: seed memory, build the working messages
Think(user_input) ==
    /\ pc \in {"idle", "returned"}
    /\ runs < MaxRuns
    /\ runs' = runs + 1
    /\ assistant_adds' = 0
    /\ appended' = Append(appended, MemoryEntry("user", user_input))
    /\ memory' = add_message(memory, max_messages, "user", user_input)
    /\ messages' = BuildMessages(SystemPrompt, memory')
    /\ execution_trace' = <<>>
    /\ iteration' = 0
    /\ tool_calls' = <<>>
    /\ result' = NoResult
    /\ llm_calls' = 0
    /\ tool_execs' = 0
    /\ requested' = 0
    /\ api_params' = NoParams
    /\ responses' = <<>>
    /\ pc' = "loop"
    /\ event' = "think"
    /\ UNCHANGED <<config, side, store>>

\* think, line 143 false, then lines 238-243
LoopExit ==
    /\ pc = "loop"
    /\ ~LoopContinues(iteration, max_iterations)
    /\ result' = ExhaustedResult(iteration, execution_trace)
    /\ pc' = "returned"
    /\ event' = "exhausted"
    /\ UNCHANGED <<config, side, memory, messages, execution_trace, iteration, tool_calls,
                   appended, assistant_adds, llm_calls, tool_execs, requested, runs,
                   query, store>>

\* think, lines 143-160 with the adapter call raising, then lines 228-243
AdapterRaises ==
    /\ pc = "loop"
    /\ LoopContinues(iteration, max_iterations)
    /\ iteration' = iteration + 1
    /\ llm_calls' = llm_calls + 1
    /\ api_params' = ApiParams(messages, tools)
    /\ Abort(execution_trace, "provider error")
    /\ event' = "adapter_raised"
    /\ UNCHANGED <<config, side, memory, messages, tool_calls, appended, assistant_adds, tool_execs,
                   requested, runs, responses, store>>

\* think, lines 143-172 with a response that asks for tool calls
AdapterRequestsTools ==
    /\ pc = "loop"
    /\ LoopContinues(iteration, max_iterations)
    /\ iteration' = iteration + 1
    /\ llm_calls' = llm_calls + 1
    /\ api_params' = ApiParams(messages, tools)
    /\ \E response \in Responses :
        /\ NeedsTools(response)
        /\ responses' = Append(responses, response)
        /\ requested + Len(response.tool_calls) <= MaxRunCalls
        /\ requested' = requested + Len(response.tool_calls)
        /\ tool_calls' = response.tool_calls
        /\ execution_trace' =
              Append(execution_trace, LlmCallEntry(iteration', response.finish_reason))
    /\ pc' = "dispatch"
    /\ event' = "tool_request"
    /\ UNCHANGED <<config, side, memory, messages, result, appended, assistant_adds, tool_execs, runs,
                   store>>

\* think, lines 143-172 and 213-226 with a response taken as the final answer;
\* reading response.usage.prompt_tokens of a response without usage raises
\* AttributeError after the answer was added to memory (then lines 228-243).
AdapterFinalAnswer ==
    /\ pc = "loop"
    /\ LoopContinues(iteration, max_iterations)
    /\ iteration' = iteration + 1
    /\ llm_calls' = llm_calls + 1
    /\ api_params' = ApiParams(messages, tools)
    /\ \E response \in Responses :
        LET trace == Append(execution_trace,
                            LlmCallEntry(iteration', response.finish_reason))
        IN  /\ ~NeedsTools(response)
            /\ responses' = Append(responses, response)
            /\ memory' = add_message(memory, max_messages, "assistant", response.content)
            /\ appended' = Append(appended, MemoryEntry("assistant", response.content))
            /\ assistant_adds' = assistant_adds + 1
            /\ IF response.usage = None
               THEN /\ Abort(trace, "'NoneType' object has no attribute 'prompt_tokens'")
                    /\ event' = "final_answer_failed"
               ELSE /\ execution_trace' = trace
                    /\ result' = AnswerResult(response.content, iteration', trace,
                                              response.usage)
                    /\ pc' = "returned"
                    /\ event' = "final_answer"
    /\ UNCHANGED <<config, side, messages, tool_calls, tool_execs, requested, runs, store>>

\* A dispatch that feeds back the result without the assistant placeholder
FinishToolCallResultOnly(tool_call, trace, tool_result) ==
    /\ messages' = Append(messages, ToolMessage(tool_call, json_dumps(tool_result).text))
    /\ execution_trace' =
          Append(trace, ToolResultEntry(iteration, tool_call.name, tool_result))
    /\ tool_calls' = Tail(tool_calls)
    /\ pc' = IF Tail(tool_calls) = <<>> THEN "loop" ELSE "dispatch"
    /\ UNCHANGED result

\* think, lines 191-211: record the result, feed it back, go on with the
\* next requested call or with the next iteration; json.dumps raising leaves
\* the placeholder appended and ends the run through the except clause.
FinishToolCall(tool_call, trace, tool_result) ==
    LET traced == Append(trace, ToolResultEntry(iteration, tool_call.name, tool_result))
        dumped == json_dumps(tool_result)
    IN  IF dumped.raised
        THEN /\ messages' = Append(messages, PlaceholderMessage(tool_call))
             /\ Abort(traced, "Object is not JSON serializable")
             /\ UNCHANGED tool_calls
        ELSE /\ messages' = messages \o <<PlaceholderMessage(tool_call),
                                          ToolMessage(tool_call, dumped.text)>>
             /\ execution_trace' = traced
             /\ tool_calls' = Tail(tool_calls)
             /\ pc' = IF Tail(tool_calls) = <<>> THEN "loop" ELSE "dispatch"
             /\ UNCHANGED result

\* think, lines 174-176 with json.loads raising, then lines 228-243
ArgumentsInvalid ==
    /\ pc = "dispatch"
    /\ json_loads(Head(tool_calls).arguments).raised
    /\ UNCHANGED iteration
    /\ Abort(execution_trace, "Expecting property name enclosed in double quotes")
    /\ event' = "arguments_invalid"
    /\ UNCHANGED <<config, side, memory, messages, tool_calls, appended, assistant_adds, llm_calls,
                   tool_execs, requested, runs, query, store>>

\* think, lines 174-187 with arguments that are JSON but no object: the call
\* execute(**tool_args) raises TypeError before execute is entered.
ArgumentsNotMapping ==
    LET tool_call == Head(tool_calls)
        parsed == json_loads(tool_call.arguments)
    IN  /\ pc = "dispatch"
        /\ ~parsed.raised
        /\ tool_call.name \in DOMAIN tool_registry
        /\ parsed.value.type # "dict"
        /\ UNCHANGED iteration
        /\ Abort(Append(execution_trace,
                        ToolCallEntry(iteration, tool_call.name, parsed.value)),
                 "argument after ** must be a mapping")
        /\ event' = "arguments_not_mapping"
        /\ UNCHANGED <<config, side, memory, messages, tool_calls, appended, assistant_adds, llm_calls,
                       tool_execs, requested, runs, query, store>>

\* think, lines 174-211 for a registered tool: Tool.execute runs the capability
ToolInvoked ==
    LET tool_call == Head(tool_calls)
        parsed == json_loads(tool_call.arguments)
    IN  /\ pc = "dispatch"
        /\ ~parsed.raised
        /\ tool_call.name \in DOMAIN tool_registry
        /\ parsed.value.type = "dict"
        /\ UNCHANGED iteration
        /\ tool_execs' = tool_execs + 1
        /\ \E behaviour \in Behaviours :
            LET called == Append(execution_trace,
                                 ToolCallEntry(iteration, tool_call.name, parsed.value))
                executed == ToolExecute(tool_registry[tool_call.name], behaviour)
            IN  /\ IF executed.raised
                   THEN /\ Abort(called, executed.value.text)
                        /\ UNCHANGED <<messages, tool_calls>>
                   ELSE FinishToolCall(tool_call, called, executed.value)
                /\ event' = "tool_" \o behaviour
        /\ UNCHANGED <<config, side, memory, appended, assistant_adds, llm_calls, requested, runs,
                       query, store>>

\* think, lines 174-211 for a name that is not in the registry
ToolNotFound ==
    LET tool_call == Head(tool_calls)
        parsed == json_loads(tool_call.arguments)
    IN  /\ pc = "dispatch"
        /\ ~parsed.raised
        /\ tool_call.name \notin DOMAIN tool_registry
        /\ UNCHANGED iteration
        /\ FinishToolCall(tool_call,
               Append(execution_trace,
                      ToolCallEntry(iteration, tool_call.name, parsed.value)),
               ErrorResult("Tool " \o tool_call.name \o " not found"))
        /\ event' = "tool_not_found"
        /\ UNCHANGED <<config, side, memory, appended, assistant_adds, llm_calls, tool_execs,
                       requested, runs, query, store>>

\* Agent.reset (lines 257-259) with AgentMemory.clear (lines 78-80)
Reset ==
    /\ pc \in {"idle", "returned"}
    /\ memory' = <<>>
    /\ appended' = <<>>
    /\ UNCHANGED <<config, side, pc, messages, execution_trace, iteration, tool_calls, result,
                   event, assistant_adds, llm_calls, tool_execs, requested, runs, query,
                   store>>

(***************************************************************************)
(* AgentMemory used on its own: any sequence of add_message and clear.     *)
(***************************************************************************)
MemoryRoles == {"user", "assistant"}

MemoryContents == {"first", "second"}

\* AgentMemory.__init__ with a configured max_messages
InitMemory ==
    /\ max_messages \in 0..MaxMsgs
    /\ memory = <<>>
    /\ appended = <<>>
    /\ pc = "memory"
    /\ event = "init"
    /\ max_iterations = 0
    /\ tools = <<>>
    /\ tool_registry = Registry(tools)
    /\ messages = <<>>
    /\ execution_trace = <<>>
    /\ iteration = 0
    /\ tool_calls = <<>>
    /\ result = NoResult
    /\ assistant_adds = 0
    /\ llm_calls = 0
    /\ tool_execs = 0
    /\ requested = 0
    /\ runs = 0
    /\ api_params = NoParams
    /\ responses = <<>>
    /\ metadata = NoMetadata
    /\ got = NoRead
    /\ last_set = NoMetadata
    /\ IdleSide

\* AgentMemory.add_message (lines 56-70)
AddMessage(role, content) ==
    /\ pc = "memory"
    /\ Len(appended) < MaxAppends
    /\ memory' = add_message(memory, max_messages, role, content)
    /\ appended' = Append(appended, MemoryEntry(role, content))
    /\ event' = "add_message"
    /\ got' = NoRead
    /\ UNCHANGED <<config, side, pc, messages, execution_trace, iteration, tool_calls, result,
                   assistant_adds, llm_calls, tool_execs, requested, runs, query, metadata,
                   last_set>>

\* A clear that empties the metadata store with the log
ClearEverything ==
    /\ pc = "memory"
    /\ memory' = <<>>
    /\ appended' = <<>>
    /\ metadata' = NoMetadata
    /\ event' = "clear"
    /\ got' = NoRead
    /\ UNCHANGED <<config, side, pc, messages, execution_trace, iteration, tool_calls, result,
                   assistant_adds, llm_calls, tool_execs, requested, runs, query, last_set>>

\* AgentMemory.clear (lines 78-80)
Clear ==
    /\ pc = "memory"
    /\ memory' = <<>>
    /\ appended' = <<>>
    /\ event' = "clear"
    /\ got' = NoRead
    /\ UNCHANGED <<config, side, pc, messages, execution_trace, iteration, tool_calls, result,
                   assistant_adds, llm_calls, tool_execs, requested, runs, query, metadata,
                   last_set>>

(***************************************************************************)
(* The tool registry of an agent: construction and any add_tool sequence.  *)
(***************************************************************************)
\* the names of the example tools (lines 288-330)
ToolNames == {"calculate", "search_web", "get_current_time"}

ToolChoices == {Tool(name, is_coroutine) : name \in ToolNames, is_coroutine \in BOOLEAN}

\* Agent.__init__ (lines 102-112) given no tool or one tool
InitRegistry ==
    /\ tools \in {<<>>} \cup {<<tool>> : tool \in ToolChoices}
    /\ tool_registry = Registry(tools)
    /\ pc = "registry"
    /\ event = "init"
    /\ max_iterations = 10
    /\ max_messages = 50
    /\ memory = <<>>
    /\ appended = <<>>
    /\ messages = <<>>
    /\ execution_trace = <<>>
    /\ iteration = 0
    /\ tool_calls = <<>>
    /\ result = NoResult
    /\ assistant_adds = 0
    /\ llm_calls = 0
    /\ tool_execs = 0
    /\ requested = 0
    /\ runs = 0
    /\ api_params = NoParams
    /\ responses = <<>>
    /\ metadata = NoMetadata
    /\ got = NoRead
    /\ last_set = NoMetadata
    /\ IdleSide

\* Agent.add_tool (lines 114-117)
AddTool(tool) ==
    /\ pc = "registry"
    /\ Len(tools) < MaxTools
    /\ tools' = Append(tools, tool)
    /\ tool_registry' = [name \in DOMAIN tool_registry \cup {tool.name} |->
                            IF name = tool.name THEN tool ELSE tool_registry[name]]
    /\ event' = "add_tool"
    /\ UNCHANGED <<side, max_iterations, max_messages, memory, pc, messages, execution_trace,
                   iteration, tool_calls, result, appended, assistant_adds, llm_calls,
                   tool_execs, requested, runs, query, store>>

\* Tool.execute (lines 40-46) of the tool registered under name, whose
\* function behaves as given
Execute(name, behaviour) ==
    /\ pc = "registry"
    /\ name \in DOMAIN tool_registry
    /\ execution' = [tool |-> tool_registry[name], behaviour |-> behaviour,
                    returned |-> ToolExecute(tool_registry[name], behaviour)]
    /\ event' = "execute"
    /\ UNCHANGED <<config, coroutines, cancel_requested, services, memory, pc, messages,
                   execution_trace, iteration, tool_calls, result, appended, assistant_adds,
                   llm_calls, tool_execs, requested, runs, query, store>>

NextRegistry ==
    \/ \E tool \in ToolChoices : AddTool(tool)
    \/ \E name \in ToolNames, behaviour \in Behaviours : Execute(name, behaviour)

SpecRegistry == InitRegistry /\ [][NextRegistry]_vars

\* AgentMemory.get_messages (lines 72-76) called with last_n, or without
GetMessages(given, last_n) ==
    /\ pc = "memory"
    /\ got' = [op |-> "get_messages", given |-> given, last_n |-> last_n,
               value |-> get_messages(memory, given, last_n)]
    /\ event' = "get_messages"
    /\ UNCHANGED <<config, side, memory, pc, messages, execution_trace, iteration, tool_calls,
                   result, appended, assistant_adds, llm_calls, tool_execs, requested, runs,
                   query, metadata, last_set>>

MetadataKeys == {"user_id", "session_id"}

MetadataValues == {"a", "b"}

\* AgentMemory.set_metadata (lines 82-84)
SetMetadata(key, value) ==
    /\ pc = "memory"
    /\ metadata' = set_metadata(metadata, key, value)
    /\ last_set' = [k \in DOMAIN last_set \cup {key} |->
                       IF k = key THEN value ELSE last_set[k]]
    /\ event' = "set_metadata"
    /\ got' = NoRead
    /\ UNCHANGED <<config, side, memory, pc, messages, execution_trace, iteration, tool_calls,
                   result, appended, assistant_adds, llm_calls, tool_execs, requested, runs,
                   query>>

\* AgentMemory.get_metadata (lines 86-88)
GetMetadata(key) ==
    /\ pc = "memory"
    /\ got' = [op |-> "get_metadata", key |-> key, value |-> get_metadata(metadata, key)]
    /\ event' = "get_metadata"
    /\ UNCHANGED <<config, side, memory, pc, messages, execution_trace, iteration, tool_calls,
                   result, appended, assistant_adds, llm_calls, tool_execs, requested, runs,
                   query, metadata, last_set>>

NextMemory ==
    \/ \E role \in MemoryRoles, content \in MemoryContents : AddMessage(role, content)
    \/ Clear
    \/ GetMessages(FALSE, 0)
    \/ \E last_n \in 0..MaxLastN : GetMessages(TRUE, last_n)
    \/ \E key \in MetadataKeys, value \in MetadataValues : SetMetadata(key, value)
    \/ \E key \in MetadataKeys : GetMetadata(key)

SpecMemory == InitMemory /\ [][NextMemory]_vars

Next ==
    \/ \E user_input \in Tasks(runs + 1) : Think(user_input)
    \/ LoopExit
    \/ AdapterRaises
    \/ AdapterRequestsTools
    \/ AdapterFinalAnswer
    \/ ArgumentsInvalid
    \/ ArgumentsNotMapping
    \/ ToolInvoked
    \/ ToolNotFound
    \/ Reset

Spec == Init /\ [][Next]_vars

\* The steps of a started run: think is one coroutine, and each adapter call
\* and each tool invocation it awaits returns or raises
RunStep ==
    \/ LoopExit
    \/ AdapterRaises
    \/ AdapterRequestsTools
    \/ AdapterFinalAnswer
    \/ ArgumentsInvalid
    \/ ArgumentsNotMapping
    \/ ToolInvoked
    \/ ToolNotFound

\* One run of a newly constructed agent, from think's entry to its return
NextRun ==
    \/ \E user_input \in Tasks(1) : runs = 0 /\ Think(user_input)
    \/ RunStep

SpecRun == Init /\ [][NextRun]_vars /\ WF_vars(RunStep)

(***************************************************************************)
(* Several runs of one agent in progress together. think is a coroutine:   *)
(* another run of the same agent takes its steps only where think is       *)
(* suspended, which is at `await tool.execute(...)` (line 187), the one    *)
(* await of think; client.chat.completions.create (line 160) is a plain    *)
(* call. A segment is what a run does between two suspensions.             *)
(***************************************************************************)
Coroutines == 1..MaxConcurrent

IdleCoroutine == [pc |-> "idle", messages |-> <<>>, snapshot |-> <<>>, awaits |-> 0]

\* How a segment ends: suspended at the await of a tool invocation, returned
\* after committing a final answer (lines 213-226), or returned without one
\* (lines 228-243)
SegmentEnds == {"await_tool", "final_answer", "no_answer"}

\* The text of the final answer the adapter gives run r
AnswerOf(r) == "answer " \o ToString(r)

\* One agent with its memory, and no run started
InitConcurrent ==
    /\ coroutines = [r \in Coroutines |-> IdleCoroutine]
    /\ NotCancelled
    /\ NotExecuted
    /\ IdleServices
    /\ max_iterations = 10
    /\ tools = <<CALCULATOR_TOOL>>
    /\ tool_registry = Registry(tools)
    /\ max_messages \in 1..MaxMsgs
    /\ memory = <<>>
    /\ appended = <<>>
    /\ pc = "concurrent"
    /\ event = "init"
    /\ messages = <<>>
    /\ execution_trace = <<>>
    /\ iteration = 0
    /\ tool_calls = <<>>
    /\ result = NoResult
    /\ assistant_adds = 0
    /\ llm_calls = 0
    /\ tool_execs = 0
    /\ requested = 0
    /\ runs = 0
    /\ api_params = NoParams
    /\ responses = <<>>
    /\ metadata = NoMetadata
    /\ got = NoRead
    /\ last_set = NoMetadata

\* think of run r from working messages msgs and memory log mem (appended so
\* far: added) to its next suspension or to its return
RunSegment(r, msgs, mem, added, snapshot, ends) ==
    /\ ends = "await_tool" => coroutines[r].awaits < MaxAwaits
    /\ coroutines' = [coroutines EXCEPT ![r] =
          [pc |-> IF ends = "await_tool" THEN "awaiting" ELSE "returned",
           messages |-> msgs,
           snapshot |-> snapshot,
           awaits |-> IF ends = "await_tool" THEN @.awaits + 1 ELSE @.awaits]]
    /\ memory' = IF ends = "final_answer"
                 THEN add_message(mem, max_messages, "assistant", AnswerOf(r))
                 ELSE mem
    /\ appended' = IF ends = "final_answer"
                   THEN Append(added, MemoryEntry("assistant", AnswerOf(r)))
                   ELSE added
    /\ event' = ends
    /\ UNCHANGED <<config, cancel_requested, execution, services, pc, messages, execution_trace, iteration, tool_calls, result,
                   assistant_adds, llm_calls, tool_execs, requested, runs, query, store>>

\* think of run r from its entry (lines 129-141) to its first suspension or
\* its return
StartRun(r, user_input, ends) ==
    /\ pc = "concurrent"
    /\ coroutines[r].pc = "idle"
    /\ LET mem == add_message(memory, max_messages, "user", user_input)
       IN  RunSegment(r, BuildMessages(SystemPrompt, mem), mem,
                      Append(appended, MemoryEntry("user", user_input)),
                      BuildMessages(SystemPrompt, mem), ends)

\* think of run r from the return of the awaited tool invocation (lines
\* 187-208) to its next suspension or its return
ResumeRun(r, ends) ==
    /\ pc = "concurrent"
    /\ coroutines[r].pc = "awaiting"
    /\ LET tool_call == ToolCall(coroutines[r].awaits, "calculate", "{}")
       IN  RunSegment(r,
                      coroutines[r].messages \o
                          <<PlaceholderMessage(tool_call),
                            ToolMessage(tool_call, json_dumps(ToolOutput).text)>>,
                      memory, appended, coroutines[r].snapshot, ends)

NextConcurrent ==
    \/ \E r \in Coroutines, ends \in SegmentEnds :
          \E user_input \in Tasks(r) : StartRun(r, user_input, ends)
    \/ \E r \in Coroutines, ends \in SegmentEnds : ResumeRun(r, ends)

SpecConcurrent == InitConcurrent /\ [][NextConcurrent]_vars

(***************************************************************************)
(* One run of an agent whose caller may ask for its cancellation.          *)
(***************************************************************************)
\* The caller asks for the cancellation of the run in progress. think has no
\* parameter, field or call through which the request could be read (lines
\* 119-243): the while condition of line 143 tests the iteration counter only.
RequestCancel ==
    /\ pc \in {"loop", "dispatch"}
    /\ iteration >= 1
    /\ ~cancel_requested
    /\ cancel_requested' = TRUE
    /\ UNCHANGED <<config, coroutines, execution, services, memory, pc, messages, execution_trace,
                   iteration, tool_calls, result, event, appended, assistant_adds, llm_calls,
                   tool_execs, requested, runs, query, store>>

NextCancel ==
    \/ NextRun
    \/ RequestCancel

SpecCancel == Init /\ [][NextCancel]_vars

(***************************************************************************)
(* services/rag_service.py: RAGService.chunk_text, called directly or by   *)
(* index_document on the route /api/v1/rag/index.                          *)
(***************************************************************************)
\* the default of chunk_text's parameter overlap
DefaultOverlap == 50

\* the least chunk_size RAGIndexRequest accepts (ge=100)
MinChunkSize == 100

\* A text of n characters; a character is told by its place
TextOfLength(n) == [i \in 1..n |-> i]

\* Non-terminating calls are followed for so many chunks
ChunkCap == MaxText + 1

\* chunk_text(text, chunk_size, overlap) is entered (lines 194-195) with any
\* arguments, or index_document (line 223) calls it with a chunk_size the
\* route has validated and the default overlap
InitChunk ==
    /\ \/ /\ event = "chunk_text"
          /\ doc_text \in {TextOfLength(n) : n \in 0..MaxText}
          /\ chunk_size \in -1..MaxChunkSize
          /\ overlap \in -1..MaxChunkSize
       \/ /\ event = "index_document"
          /\ doc_text \in {TextOfLength(n * DefaultOverlap) : n \in 0..MaxText}
          /\ chunk_size \in {MinChunkSize, MinChunkSize + 1}
          /\ overlap = DefaultOverlap
    /\ chunk_start = 0
    /\ chunks = <<>>
    /\ pc = "chunking"
    /\ NoStreaming
    /\ NoBatch
    /\ AgentAtRest
    /\ IdleCoroutines
    /\ NotCancelled
    /\ NotExecuted

\* A boundary that moves on by the whole chunk
NextStartNoOverlap(end, lap) == end

\* line 201: start = end - overlap
NextStart(end, lap) == end - lap

\* lines 197-201: one turn of the while loop
ChunkStep ==
    /\ pc = "chunking"
    /\ chunk_start < Len(doc_text)
    /\ Len(chunks) < ChunkCap
    /\ LET end == chunk_start + chunk_size
       IN  /\ chunks' = Append(chunks, PySlice(doc_text, chunk_start, end))
           /\ chunk_start' = NextStart(end, overlap)
    /\ UNCHANGED <<config, coroutines, cancel_requested, execution, doc_text, chunk_size,
                   overlap, stream, batch, memory,
                   pc, messages, execution_trace, iteration, tool_calls, result, event,
                   appended, assistant_adds, llm_calls, tool_execs, requested, runs, query,
                   store>>

\* line 197 false, line 203: return chunks
ChunkReturn ==
    /\ pc = "chunking"
    /\ ~(chunk_start < Len(doc_text))
    /\ pc' = "chunked"
    /\ UNCHANGED <<config, side, memory, messages, execution_trace, iteration, tool_calls,
                   result, event, appended, assistant_adds, llm_calls, tool_execs, requested,
                   runs, query, store>>

NextChunk ==
    \/ ChunkStep
    \/ ChunkReturn

\* chunk_text has no await: once called it runs
SpecChunk == InitChunk /\ [][NextChunk]_vars /\ WF_vars(NextChunk)

(***************************************************************************)
(* StreamingService (streaming_service.py): stream_chat_completion is an   *)
(* async generator. It asks the provider for a stream, yields one content  *)
(* event per chunk that carries text, then a done event; any exception of  *)
(* the call or of the iteration is caught and becomes an error event.      *)
(* Each event is one line, json.dumps of a dict; the dict is kept here.    *)
(***************************************************************************)

\* the largest number of items of a provider stream
MaxStream == 3

\* delta.content of a chunk: None, the empty string, or text
DeltaContents == {"None", "", "Hi"}

\* what the provider stream gives next: a chunk with a delta, a chunk whose
\* choices list is empty, or an exception raised by the iterator
StreamItems ==
    {[kind |-> "chunk", content |-> c] : c \in DeltaContents}
        \cup {[kind |-> k, content |-> "None"] : k \in {"no_choices", "raises"}}

RECURSIVE SeqsUpTo(_, _)
\* the sequences over S of length at most n
SeqsUpTo(S, n) ==
    IF n = 0
    THEN {<<>>}
    ELSE LET shorter == SeqsUpTo(S, n - 1)
         IN  shorter \cup {Append(q, x) : q \in shorter, x \in S}

\* line 40: if chunk.choices[0].delta.content
HasContent(item) == item.content \notin {"None", ""}

\* lines 41-44
ContentEvent(content) == [type |-> "content", content |-> content]

\* lines 47-50
DoneEvent == [type |-> "done", finish_reason |-> "stop"]

\* lines 54-57
ErrorEvent(text) == [type |-> "error", error |-> text]

\* An except clause that swallows the exception and ends the generator
StreamExceptSilent(evs, text) == evs

\* lines 52-57: except Exception as e: yield the error event
StreamExcept(evs, text) == Append(evs, ErrorEvent(text))

\* line 72 of stream_text_completion: messages = [{"role": "user", "content": prompt}]
PromptMessages(prompt) == <<[role |-> "user", content |-> prompt]>>

\* the prompts and message lists a caller passes
Prompts == {"Say hi"}

ChatInputs ==
    {PromptMessages(p) : p \in Prompts}
        \cup {<<[role |-> "system", content |-> "Be brief"]>> \o PromptMessages(p) : p \in Prompts}

\* A call of stream_chat_completion, directly or through
\* stream_text_completion (lines 73-79), which forwards every event as it is
InitStream ==
    /\ \/ /\ event = "stream_chat_completion"
          /\ stream_request \in ChatInputs
       \/ /\ event = "stream_text_completion"
          /\ stream_request \in {PromptMessages(p) : p \in Prompts}
    /\ stream_source \in [create : {"returns", "raises"},
                          chunks : SeqsUpTo(StreamItems, MaxStream)]
    /\ stream_pos = 0
    /\ events = <<>>
    /\ pc = "stream_create"
    /\ NoChunking
    /\ NoBatch
    /\ AgentAtRest
    /\ IdleCoroutines
    /\ NotCancelled
    /\ NotExecuted

\* lines 31-37: stream = self.client.chat.completions.create(..., stream=True)
StreamCreate ==
    /\ pc = "stream_create"
    /\ IF stream_source.create = "raises"
       THEN /\ events' = StreamExcept(events, "create failed")
            /\ pc' = "stream_closed"
       ELSE /\ pc' = "stream_iter"
            /\ UNCHANGED events
    /\ UNCHANGED <<config, coroutines, cancel_requested, execution, rag, batch, stream_source,
                   stream_request, stream_pos, memory, messages, execution_trace, iteration,
                   tool_calls, result, event, appended, assistant_adds, llm_calls, tool_execs,
                   requested, runs, query, store>>

\* lines 39-44: one turn of `for chunk in stream`
StreamChunk ==
    /\ pc = "stream_iter"
    /\ stream_pos < Len(stream_source.chunks)
    /\ stream_pos' = stream_pos + 1
    /\ LET item == stream_source.chunks[stream_pos + 1]
       IN  CASE item.kind = "raises" ->
                    /\ events' = StreamExcept(events, "stream failed")
                    /\ pc' = "stream_closed"
             [] item.kind = "no_choices" ->
                    /\ events' = StreamExcept(events, "list index out of range")
                    /\ pc' = "stream_closed"
             [] OTHER ->
                    /\ events' = IF HasContent(item)
                                 THEN Append(events, ContentEvent(item.content))
                                 ELSE events
                    /\ UNCHANGED pc
    /\ UNCHANGED <<config, coroutines, cancel_requested, execution, rag, batch, stream_source,
                   stream_request, memory, messages, execution_trace, iteration, tool_calls,
                   result, event, appended, assistant_adds, llm_calls, tool_execs, requested,
                   runs, query, store>>

\* lines 47-50: the provider stream is used up, yield the done event
StreamDone ==
    /\ pc = "stream_iter"
    /\ stream_pos = Len(stream_source.chunks)
    /\ events' = Append(events, DoneEvent)
    /\ pc' = "stream_closed"
    /\ UNCHANGED <<config, coroutines, cancel_requested, execution, rag, batch, stream_source,
                   stream_request, stream_pos, memory, messages, execution_trace, iteration,
                   tool_calls, result, event, appended, assistant_adds, llm_calls, tool_execs,
                   requested, runs, query, store>>

NextStream ==
    \/ StreamCreate
    \/ StreamChunk
    \/ StreamDone

\* the consumer keeps asking for the next event
SpecStream == InitStream /\ [][NextStream]_vars /\ WF_vars(NextStream)

(***************************************************************************)
(* batch_process (main.py, lines 453-494) handles the sub-requests of a    *)
(* batch in a for loop. Each sub-request is built into the request model   *)
(* of the chosen endpoint and handed to that endpoint's handler inside a   *)
(* try; what the handler returns is recorded as a success, any exception   *)
(* as an error.                                                            *)
(***************************************************************************)

\* the largest number of sub-requests of a batch
MaxBatch == 3

\* line 445: endpoint matches ^(chat|completions|embeddings)$
Endpoints == {"chat", "completions", "embeddings"}

\* the request model and the handler of an endpoint (lines 468-481)
RequestModel(name) ==
    CASE name = "chat" -> "ChatRequest"
      [] name = "completions" -> "CompletionRequest"
      [] name = "embeddings" -> "EmbeddingRequest"

\* what becomes of a sub-request: its payload does not validate, the
\* handler raises HTTPException, or the handler returns its response
Outcomes == {"invalid", "raises", "returns"}

\* the k-th sub-request of a batch, with the outcome it will have
SubRequest(k, outcome) == [id |-> k, outcome |-> outcome]

\* the batches of n sub-requests
Batches(n) == {[k \in 1..n |-> SubRequest(k, f[k])] : f \in [1..n -> Outcomes]}

\* str(e) of the exception a sub-request ends with
ErrorText(name, req) ==
    IF req.outcome = "invalid"
    THEN "validation error for " \o RequestModel(name)
    ELSE "500: provider failed"

\* line 483: {"status": "success", "data": result.model_dump()}
SuccessResult(name, req) ==
    [status |-> "success", data |-> [model |-> RequestModel(name), id |-> req.id]]

\* An except clause that drops the failed sub-request
BatchExceptDrop(rs, text) == rs

\* line 486: results.append({"status": "error", "error": str(e)})
BatchExcept(rs, text) == Append(rs, [status |-> "error", error |-> text])

\* A call of batch_process, after lines 461-463
InitBatch ==
    /\ endpoint \in Endpoints
    /\ requests \in UNION {Batches(n) : n \in 0..MaxBatch}
    /\ batch_pos = 0
    /\ results = <<>>
    /\ successful = 0
    /\ failed = 0
    /\ batch_response = NoBatchResponse
    /\ pc = "batch_loop"
    /\ event = "batch_process"
    /\ NoChunking
    /\ NoStreaming
    /\ AgentAtRest
    /\ IdleCoroutines
    /\ NotCancelled
    /\ NotExecuted

\* lines 465-487: one turn of `for req in request.requests`
BatchStep ==
    /\ pc = "batch_loop"
    /\ batch_pos < Len(requests)
    /\ batch_pos' = batch_pos + 1
    /\ LET req == requests[batch_pos + 1]
       IN  IF req.outcome = "returns"
           THEN /\ results' = Append(results, SuccessResult(endpoint, req))
                /\ successful' = successful + 1
                /\ UNCHANGED failed
           ELSE /\ results' = BatchExcept(results, ErrorText(endpoint, req))
                /\ failed' = failed + 1
                /\ UNCHANGED successful
    /\ UNCHANGED <<config, coroutines, cancel_requested, execution, rag, stream, endpoint,
                   requests, batch_response, memory, pc, messages, execution_trace, iteration,
                   tool_calls, result, event, appended, assistant_adds, llm_calls, tool_execs,
                   requested, runs, query, store>>

\* lines 489-494: return BatchResponse(...)
BatchReturn ==
    /\ pc = "batch_loop"
    /\ batch_pos = Len(requests)
    /\ batch_response' = [results |-> results, total |-> Len(requests),
                          successful |-> successful, failed |-> failed]
    /\ pc' = "batch_returned"
    /\ UNCHANGED <<config, coroutines, cancel_requested, execution, rag, stream, endpoint,
                   requests, batch_pos, results, successful, failed, memory, messages,
                   execution_trace, iteration, tool_calls, result, event, appended,
                   assistant_adds, llm_calls, tool_execs, requested, runs, query, store>>

NextBatch ==
    \/ BatchStep
    \/ BatchReturn

\* the handlers are awaited one after another and each returns or raises
SpecBatch == InitBatch /\ [][NextBatch]_vars /\ WF_vars(NextBatch)

(***************************************************************************)
(* Properties.                                                             *)
(***************************************************************************)
Last(s) == s[Len(s)]

\* The number of entries of a trace that have the given type
RECURSIVE CountType(_, _)
CountType(trace, type) ==
    IF trace = <<>> THEN 0
    ELSE (IF Head(trace).type = type THEN 1 ELSE 0) + CountType(Tail(trace), type)

Returned == pc = "returned"

HasError(res) == "error" \in DOMAIN res

\* C1 (as amended): every run of an agent configured with max_iterations >= 1
\* returns 1 <= iterations <= max_iterations, whichever way it ends; an agent
\* configured with max_iterations <= 0 makes no model query and returns
\* iterations == 0.
C1_IterationsWithinBudget ==
    Returned =>
        /\ max_iterations >= 1 =>
              (1 <= result.iterations /\ result.iterations <= max_iterations)
        /\ max_iterations <= 0 => (result.iterations = 0 /\ llm_calls = 0)

\* C1 witness: a run that used its whole budget of two or more iterations and
\* ended with a final answer.
C1_Witness ==
    /\ Returned
    /\ event = "final_answer"
    /\ max_iterations >= 2
    /\ result.iterations = max_iterations

\* C1 as stated: for any max_iterations the agent is configured with, the
\* returned iterations satisfies 1 <= iterations <= max_iterations.
C1_Original ==
    Returned => (1 <= result.iterations /\ result.iterations <= max_iterations)

\* C2 as stated: in the trace a run returns, every tool_call entry is
\* immediately followed by exactly one tool_result entry with the same
\* iteration and tool name.
C2_Pairing ==
    Returned =>
        LET trace == result.execution_trace
        IN  \A i \in 1..Len(trace) :
                trace[i].type = "tool_call" =>
                    /\ i < Len(trace)
                    /\ trace[i + 1].type = "tool_result"
                    /\ trace[i + 1].iteration = trace[i].iteration
                    /\ trace[i + 1].tool = trace[i].tool
                    /\ (i + 2 <= Len(trace) => trace[i + 2].type # "tool_result")

C4_AssistantEntries ==
    Returned => assistant_adds = (IF HasError(result) THEN 0 ELSE 1)

\* C5 as stated: after n add_message calls since the last clear the log is
\* exactly the most recent min(n, max_messages) entries in insertion order,
\* so its length never exceeds max_messages.
C5_Eviction ==
    LET n == Len(appended)
        k == Min(n, max_messages)
    IN  /\ memory = SubSeq(appended, n - k + 1, n)
        /\ Len(memory) <= max_messages

\* C6: when the adapter call fails at iteration i the step ends the run: it
\* appends one error entry of iteration i to the otherwise unchanged trace,
\* returns that trace with iterations = i, and invokes no tool; a returned run
\* makes no further adapter call or tool invocation and its result stays as
\* returned.
C6_AdapterFailureEndsRun ==
    [][ /\ (pc = "loop" /\ event' = "adapter_raised") =>
            /\ pc' = "returned"
            /\ Len(execution_trace') = Len(execution_trace) + 1
            /\ SubSeq(execution_trace', 1, Len(execution_trace)) = execution_trace
            /\ Last(execution_trace').type = "error"
            /\ Last(execution_trace').iteration = iteration + 1
            /\ result'.execution_trace = execution_trace'
            /\ result'.iterations = iteration + 1
            /\ llm_calls' = llm_calls + 1
            /\ llm_calls' = iteration + 1
            /\ tool_execs' = tool_execs
        /\ (pc = "returned" /\ runs' = runs) =>
            /\ llm_calls' = llm_calls
            /\ tool_execs' = tool_execs
            /\ result' = result
      ]_vars

\* C6 witness: the adapter failed on the second query, after tool calls of
\* the first iteration were traced.
C6_Witness ==
    /\ event = "adapter_raised"
    /\ iteration = 2
    /\ Len(execution_trace) >= 4
    /\ CountType(execution_trace, "tool_result") >= 1

\* C7 as stated (for max_iterations >= 1): the result marked
\* "max_iterations_reached" is returned only by a run that used its whole
\* budget and had no adapter failure.
C7_Distinguishable ==
    (Returned /\ max_iterations >= 1 /\ HasError(result)) =>
        /\ result.error = "max_iterations_reached"
        /\ result.iterations = max_iterations
        /\ event # "adapter_raised"

ToolEvents ==
    {"arguments_invalid", "arguments_not_mapping", "tool_returns",
     "tool_returns_object", "tool_raises", "tool_not_found"}

\* C8 as stated: whatever happens while a requested tool call is handled, the
\* run is not ended: the failure is recorded in a tool_result entry and the
\* loop goes on.
C8_ToolFailuresRecovered ==
    event \in ToolEvents =>
        /\ pc \in {"loop", "dispatch"}
        /\ Last(execution_trace).type = "tool_result"

\* C9 as stated: when every one of the max_iterations queries was answered
\* with a tool request, the run returns iterations = max_iterations, the
\* marker, the apology and the complete trace: max_iterations llm_call entries
\* and a tool_call and a tool_result entry for every requested call.
C9_Exhausted ==
    (/\ Returned
     /\ llm_calls = max_iterations
     /\ event \notin {"adapter_raised", "final_answer", "final_answer_failed"}) =>
        /\ result.iterations = max_iterations
        /\ HasError(result) /\ result.error = "max_iterations_reached"
        /\ result.answer =
             "I apologize, but I couldn't complete the task within the iteration limit."
        /\ result.execution_trace = execution_trace
        /\ CountType(execution_trace, "llm_call") = max_iterations
        /\ CountType(execution_trace, "tool_call") = requested
        /\ CountType(execution_trace, "tool_result") = requested

\* C10 as stated: handling a requested call whose name is not in the registry
\* never ends the run: the step appends its tool_call entry and a tool_result
\* entry carrying the "not found" error, appends that error to the working
\* messages as the tool's output, and goes on with the remaining calls or the
\* next iteration.
C10_UnknownToolContinues ==
    [][ (pc = "dispatch" /\ Head(tool_calls).name \notin DOMAIN tool_registry) =>
            LET n == Len(execution_trace)
            IN  /\ pc' \in {"loop", "dispatch"}
                /\ Len(execution_trace') = n + 2
                /\ execution_trace'[n + 1].type = "tool_call"
                /\ execution_trace'[n + 1].tool = Head(tool_calls).name
                /\ execution_trace'[n + 2].type = "tool_result"
                /\ execution_trace'[n + 2].result.key = "error"
                /\ Last(messages').role = "tool"
                /\ tool_calls' = Tail(tool_calls)
      ]_vars

\* s is an initial part of t
IsPrefix(s, t) == Len(s) <= Len(t) /\ SubSeq(t, 1, Len(s)) = s

\* The entries of a trace that are not error entries
RECURSIVE WithoutErrors(_)
WithoutErrors(trace) ==
    IF trace = <<>> THEN <<>>
    ELSE (IF Head(trace).type = "error" THEN <<>> ELSE <<Head(trace)>>) \o
         WithoutErrors(Tail(trace))

\* What the ordering looks at in a trace entry: iteration, type and tool name
EntrySignature(entry) ==
    <<entry.iteration, entry.type,
      IF entry.type \in {"tool_call", "tool_result"} THEN entry.tool ELSE "">>

Signatures(trace) == [i \in 1..Len(trace) |-> EntrySignature(trace[i])]

\* One (tool_call, tool_result) pair per requested call, in the adapter's order
CallPairs(iter, calls) ==
    [k \in 1..(2 * Len(calls)) |->
        <<iter, IF k % 2 = 1 THEN "tool_call" ELSE "tool_result", calls[(k + 1) \div 2].name>>]

\* The signatures the responses received from iteration iter on should leave
RECURSIVE ExpectedSignatures(_, _)
ExpectedSignatures(resps, iter) ==
    IF resps = <<>> THEN <<>>
    ELSE <<<<iter, "llm_call", "">>>> \o
         CallPairs(iter, IF NeedsTools(Head(resps)) THEN Head(resps).tool_calls ELSE <<>>) \o
         ExpectedSignatures(Tail(resps), iter + 1)

C11_Ordered ==
    /\ \A i \in 1..(Len(execution_trace) - 1) :
          execution_trace[i].iteration <= execution_trace[i + 1].iteration
    /\ IsPrefix(Signatures(WithoutErrors(execution_trace)), ExpectedSignatures(responses, 1))
    /\ Returned =>
          /\ result.execution_trace = execution_trace
          /\ Signatures(WithoutErrors(execution_trace)) = ExpectedSignatures(responses, 1)
          /\ (/\ Len(responses) = 2
              /\ Len(responses[1].tool_calls) = 1
              /\ event = "final_answer") =>
                 /\ [i \in 1..Len(execution_trace) |-> execution_trace[i].type] =
                       <<"llm_call", "tool_call", "tool_result", "llm_call">>
                 /\ result.iterations = 2

\* C11 as stated: within a run the trace only grows and its iteration numbers
\* never decrease; error entries apart, the trace a run returns is, for each
\* iteration in turn, one llm_call entry followed by one (tool_call,
\* tool_result) pair per call the adapter requested, in the adapter's order;
\* a tool request on iteration 1 and a final answer on iteration 2 leave
\* exactly llm_call, tool_call, tool_result, llm_call and iterations == 2.
C11_TraceOrder ==
    /\ []C11_Ordered
    /\ [][runs' = runs => IsPrefix(execution_trace, execution_trace')]_vars

\* C12 as stated: when the adapter's i-th response is the first that asks for
\* no tool call, the run returns {answer, iterations, execution_trace, usage}
\* with the adapter's text as answer, iterations == i, no error marker and a
\* trace with exactly i llm_call entries; a final answer on iteration 1 leaves
\* a trace of exactly one llm_call entry.
C12_FinalAnswer ==
    (Returned /\ responses # <<>> /\ ~NeedsTools(Last(responses))) =>
        LET i == Len(responses)
        IN  /\ DOMAIN result = {"answer", "iterations", "execution_trace", "usage"}
            /\ result.answer = Last(responses).content
            /\ result.iterations = i
            /\ ~HasError(result)
            /\ CountType(result.execution_trace, "llm_call") = i
            /\ i = 1 => result.execution_trace = <<LlmCallEntry(1, responses[1].finish_reason)>>

Running == pc \in {"loop", "dispatch"}

C13_WellFormed ==
    /\ pc \in {"idle", "loop", "dispatch", "returned"}
    /\ llm_calls <= Max(max_iterations, 0)
    /\ Returned =>
          /\ {"answer", "iterations", "execution_trace"} \subseteq DOMAIN result
          /\ result.execution_trace = execution_trace

RECURSIVE ToolResults(_)
ToolResults(trace) ==
    IF trace = <<>> THEN <<>>
    ELSE (IF Head(trace).type = "tool_result" THEN <<Head(trace)>> ELSE <<>>) \o
         ToolResults(Tail(trace))

\* C14: while a run is between think's entry and its final-answer commit, the
\* memory is what it was when the working messages were built (the last
\* add_message was the run's own task, and the replayed part of the working
\* messages is still the memory), and the working messages have grown by
\* exactly two entries per processed call: an assistant placeholder with null
\* content carrying the call, then the tool message with the call's id and
\* the serialized result.
C14_DispatchLeavesMemory ==
    /\ (runs >= 1 /\ event \notin {"final_answer", "final_answer_failed"}) =>
          /\ assistant_adds = 0
          /\ appended = <<>> \/ Last(appended) \in
                                  {MemoryEntry("user", task) : task \in Tasks(runs)}
    /\ Running =>
          LET n == Len(memory)
              done == ToolResults(execution_trace)
          IN  /\ appended # <<>>
              /\ Len(messages) = 1 + n + 2 * Len(done)
              /\ \A i \in 1..n :
                    /\ messages[1 + i].role = memory[i].role
                    /\ messages[1 + i].content = memory[i].content
              /\ \A k \in 1..Len(done) :
                    LET placeholder == messages[n + 2 * k]
                        fed == messages[n + 2 * k + 1]
                    IN  /\ placeholder.role = "assistant"
                        /\ placeholder.content = None
                        /\ Len(placeholder.tool_calls) = 1
                        /\ placeholder.tool_calls[1].name = done[k].tool
                        /\ fed.role = "tool"
                        /\ fed.tool_call_id = placeholder.tool_calls[1].id
                        /\ fed.content = json_dumps(done[k].result).text

\* C14 witness: the second run on an agent has processed two tool calls and
\* is still running.
C14_Witness ==
    /\ Running
    /\ runs = 2
    /\ Len(memory) = 2
    /\ Len(ToolResults(execution_trace)) = 2

\* C15: the messages of every adapter call are one system entry holding the
\* system prompt, then the memory's entries in insertion order, the last of
\* them the run's own task, then for each processed tool call in dispatch
\* order the assistant placeholder and the tool message; no other entry has
\* the system role; the call carries the tool catalog exactly when the agent
\* has a registered tool.
C15_QueryMessages ==
    [][llm_calls' = llm_calls + 1 =>
        LET sent == api_params'.messages
            n == Len(memory)
            done == ToolResults(execution_trace)
        IN  /\ sent # <<>>
            /\ sent[1] = [role |-> "system", content |-> SystemPrompt]
            /\ \A i \in 2..Len(sent) : sent[i].role # "system"
            /\ Len(sent) = 1 + n + 2 * Len(done)
            /\ n >= 1
            /\ \A i \in 1..n : sent[1 + i] = MemoryEntry(memory[i].role, memory[i].content)
            /\ memory[n] \in {MemoryEntry("user", task) : task \in Tasks(runs)}
            /\ \A k \in 1..Len(done) :
                  /\ sent[n + 2 * k].role = "assistant"
                  /\ sent[n + 2 * k].tool_calls[1].name = done[k].tool
                  /\ sent[n + 2 * k + 1].role = "tool"
                  /\ sent[n + 2 * k + 1].tool_call_id = sent[n + 2 * k].tool_calls[1].id
                  /\ sent[n + 2 * k + 1].content = json_dumps(done[k].result).text
            /\ ("tools" \in DOMAIN api_params') <=> (DOMAIN tool_registry # {})
    ]_vars

\* C15 witness: the second query of a run was made with the tool catalog and
\* with a tool exchange after a memory of two entries.
C15_Witness ==
    /\ llm_calls = 2
    /\ "tools" \in DOMAIN api_params
    /\ Len(memory) >= 2
    /\ Len(api_params.messages) >= 5

\* The places of a sequence whose entry has the given name
Places(named, name) == {i \in 1..Len(named) : named[i] = name}

\* C16 as stated: after construction and any sequence of add_tool, every
\* registered name is bound, for dispatch, to the tool registered last under
\* that name, and the catalog sent to the adapter lists each registered name
\* exactly once (and no other name).
C16_UniqueNames ==
    LET registered == [i \in 1..Len(tools) |-> tools[i].name]
        params == ApiParams(<<>>, tools)
        listed == IF "tools" \in DOMAIN params
                  THEN [i \in 1..Len(params.tools) |-> params.tools[i].function.name]
                  ELSE <<>>
    IN  /\ DOMAIN tool_registry = {registered[i] : i \in 1..Len(registered)}
        /\ \A name \in DOMAIN tool_registry :
              /\ \E i \in Places(registered, name) :
                    /\ tool_registry[name] = tools[i]
                    /\ \A j \in Places(registered, name) : j <= i
              /\ Cardinality(Places(listed, name)) = 1
        /\ \A i \in 1..Len(listed) : listed[i] \in DOMAIN tool_registry

\* C17 as stated: every entry of the memory has non-null content, whatever the
\* adapter responded; in the working messages null content occurs only in
\* assistant entries that carry a tool request.
C17_NonNullContent ==
    /\ \A i \in 1..Len(memory) : memory[i].content # None
    /\ \A i \in 1..Len(messages) :
          messages[i].content = None =>
              /\ messages[i].role = "assistant"
              /\ "tool_calls" \in DOMAIN messages[i]

\* The most recent count entries of a log
MostRecent(log, count) == SubSeq(log, Len(log) - count + 1, Len(log))

\* C18 as stated: get_messages changes neither the log nor the metadata;
\* called without last_n it returns every entry in insertion order, called
\* with last_n it returns exactly the most recent min(last_n, length) entries.
C18_GetMessages ==
    [][event' = "get_messages" =>
        /\ memory' = memory
        /\ metadata' = metadata
        /\ got'.value = IF got'.given
                        THEN MostRecent(memory, Min(got'.last_n, Len(memory)))
                        ELSE memory
    ]_vars

\* C19: clear empties the log and leaves the metadata as it was; add_message,
\* evicting or not, leaves the metadata as it was; set_metadata leaves the log
\* as it was and drops no key; get_metadata(key) returns the value of the last
\* set_metadata(key, value), or None for a key never set, whatever was done
\* to the log in between, and changes nothing.
C19_MetadataIndependent ==
    [][/\ event' = "clear" => (memory' = <<>> /\ metadata' = metadata)
       /\ event' = "add_message" => metadata' = metadata
       /\ event' = "set_metadata" =>
             /\ memory' = memory
             /\ DOMAIN metadata \subseteq DOMAIN metadata'
       /\ event' = "get_metadata" =>
             /\ memory' = memory
             /\ metadata' = metadata
             /\ got'.value = IF got'.key \in DOMAIN last_set
                             THEN last_set[got'.key]
                             ELSE None
    ]_vars

\* C19 witness: with both keys set and entries evicted from the log, a key's
\* value was read back.
C19_Witness ==
    /\ event = "get_metadata"
    /\ got.value \in MetadataValues
    /\ DOMAIN metadata = MetadataKeys
    /\ Len(appended) > Len(memory)
    /\ memory # <<>>

\* C20: when a run starts, its working messages are the system prompt
\* followed, in the order they were added, by the most recent max_messages of
\* the entries added since construction or the last reset (the tasks and the
\* committed answers of earlier runs), the last of them the new task; on a new
\* or reset agent the run's first query is sent the system prompt and the new
\* task only; reset empties the memory and leaves the tool list and the tool
\* registry as they were.
C20_MemoryAcrossRuns ==
    [][/\ runs' = runs + 1 =>
             LET kept == Min(Len(appended'), max_messages)
             IN  /\ Len(appended') = Len(appended) + 1
                 /\ SubSeq(appended', 1, Len(appended)) = appended
                 /\ Last(appended') \in {MemoryEntry("user", task) : task \in Tasks(runs')}
                 /\ messages' = <<[role |-> "system", content |-> SystemPrompt]>> \o
                                MostRecent(appended', kept)
       /\ (llm_calls = 0 /\ llm_calls' = 1 /\ Len(appended) = 1) =>
             api_params'.messages =
                 <<[role |-> "system", content |-> SystemPrompt], appended[1]>>
       /\ (pc \in {"idle", "returned"} /\ runs' = runs) =>
             /\ memory' = <<>>
             /\ appended' = <<>>
             /\ tools' = tools
             /\ tool_registry' = tool_registry
    ]_vars

\* C20 witness: the second run of an agent has started on a memory that holds
\* the first run's committed answer and has evicted the first run's task.
C20_Witness ==
    /\ event = "think"
    /\ runs = 2
    /\ Len(appended) = 3
    /\ Len(memory) = 2
    /\ messages[2].role = "assistant"
    /\ messages[3].role = "user"

\* C21: in every interleaving of runs of one agent at their suspension
\* points the memory never holds more than max_messages entries and is
\* exactly the most recent entries of everything the runs added, in the order
\* of the add_message calls (nothing is lost but by eviction of the oldest);
\* the part of a run's working messages that it built at its start is still
\* what it built then, whatever the other runs have added since.
C21_Serialized ==
    pc = "concurrent" =>
        /\ Len(memory) <= max_messages
        /\ memory = MostRecent(appended, Min(Len(appended), max_messages))
        /\ \A r \in Coroutines :
              coroutines[r].pc # "idle" =>
                  LET built == coroutines[r].snapshot
                      working == coroutines[r].messages
                  IN  /\ built # <<>>
                      /\ IsPrefix(built, working)
                      /\ Len(working) = Len(built) + 2 * (coroutines[r].awaits -
                             (IF coroutines[r].pc = "awaiting" THEN 1 ELSE 0))
                      /\ Last(built) \in {MemoryEntry("user", task) : task \in Tasks(r)}

\* C21 witness: two runs are suspended together; the memory has evicted an
\* entry and no longer ends with the first run's task, which that run's
\* working messages still end with.
C21_Witness ==
    /\ pc = "concurrent"
    /\ \A r \in {1, 2} : coroutines[r].pc = "awaiting"
    /\ Len(appended) > Len(memory)
    /\ Last(coroutines[1].messages) # Last(memory)
    /\ coroutines[1].awaits = 2

\* C22 as stated: once the cancellation of a run was requested while one of
\* its iterations was in progress, the run makes no further model query.
C22_CancelBetweenIterations ==
    [][cancel_requested => llm_calls' <= llm_calls]_vars

\* C23: chunk_text returns for every text when overlap < chunk_size; when
\* overlap >= chunk_size its boundary never moves forward and it never returns
\* on a non-empty text; called by index_document, with chunk_size >=
\* MinChunkSize and the default overlap, it returns.
C23_ChunkTermination ==
    /\ (overlap < chunk_size) ~> (pc = "chunked")
    /\ [](overlap >= chunk_size /\ doc_text # <<>> => pc # "chunked")
    /\ [][overlap >= chunk_size => chunk_start' <= chunk_start]_vars
    /\ [](event = "index_document" => overlap < MinChunkSize /\ MinChunkSize <= chunk_size)
    /\ (event = "index_document") ~> (pc = "chunked")

\* C23 witness: index_document's call has returned three or more chunks.
C23_Witness ==
    /\ pc = "chunked"
    /\ event = "index_document"
    /\ Len(chunks) >= 3
    /\ Len(chunks[1]) = chunk_size

\* The user-role entry of the task of the run in progress or just returned
IsOwnTask(entry) == entry \in {MemoryEntry("user", task) : task \in Tasks(runs)}

\* C24 as stated: from think's entry on, the run's task is in the memory as a
\* user entry, added before any model query; a run that returns the
\* exhausted-budget result (budget used, or adapter failure) has added that
\* entry and nothing else, so the memory ends with the task; a run that
\* returns an answer on a memory of max_messages >= 2 leaves the task followed
\* by the committed answer as the two newest entries.
C24_TaskRecorded ==
    (runs >= 1 /\ appended # <<>>) =>
        /\ Len(appended) > assistant_adds
        /\ IsOwnTask(appended[Len(appended) - assistant_adds])
        /\ (Returned /\ HasError(result)) =>
              /\ assistant_adds = 0
              /\ IsOwnTask(Last(memory))
        /\ (Returned /\ ~HasError(result) /\ max_messages >= 2) =>
              /\ assistant_adds = 1
              /\ Len(memory) >= 2
              /\ IsOwnTask(memory[Len(memory) - 1])
              /\ Last(memory) = MemoryEntry("assistant", result.answer)

\* C25 as stated: Tool.execute lets no exception out; when the tool's
\* function completes it returns the function's own output unchanged, and it
\* returns {"error": <description>} exactly when the function raises, for a
\* coroutine function and for an ordinary function alike.
C25_ExecuteContract ==
    execution # NoExecution =>
        /\ ~execution.returned.raised
        /\ execution.behaviour = "raises" <=> execution.returned.value.key = "error"
        /\ execution.behaviour # "raises" =>
              execution.returned.value = FunctionValue(execution.behaviour)

\* the provider raised, on create or while the stream was iterated
ProviderRaised ==
    \/ stream_source.create = "raises"
    \/ \E i \in 1..stream_pos : stream_source.chunks[i].kind \in {"raises", "no_choices"}

\* the text carried by the chunks taken so far
RECURSIVE TextsOf(_, _)
TextsOf(items, n) ==
    IF n = 0
    THEN <<>>
    ELSE IF items[n].kind = "chunk" /\ HasContent(items[n])
         THEN Append(TextsOf(items, n - 1), ContentEvent(items[n].content))
         ELSE TextsOf(items, n - 1)

C26_Shape ==
    pc \in {"stream_create", "stream_iter", "stream_closed"} =>
        /\ \A i \in 1..(Len(events) - 1) : events[i].type = "content"
        /\ pc # "stream_closed" => \A i \in 1..Len(events) : events[i].type = "content"
        /\ pc = "stream_closed" =>
              /\ events # <<>>
              /\ Last(events).type \in {"done", "error"}
              /\ Last(events).type = "done" <=> ~ProviderRaised
              /\ SubSeq(events, 1, Len(events) - 1) = TextsOf(stream_source.chunks, stream_pos)

\* C26: every stream of stream_chat_completion is zero or more content
\* events followed by exactly one terminal event, the last one emitted: done
\* when the provider stream was consumed without an exception, error
\* otherwise; never both, and no content event after the terminal event.
C26_StreamShape == []C26_Shape /\ <>(pc = "stream_closed")

\* C26 witness: a closed stream where the provider raised after chunks with
\* text were forwarded
C26_Witness ==
    /\ pc = "stream_closed"
    /\ Len(events) >= 3
    /\ events[1].type = "content"
    /\ Last(events).type = "error"
    /\ stream_source.create = "returns"

\* the k-th result is marked by the k-th sub-request's own outcome
MarkedByOutcome(rs, k) ==
    IF requests[k].outcome = "returns"
    THEN rs[k] = SuccessResult(endpoint, requests[k])
    ELSE rs[k].status = "error"

C27_Counts ==
    pc \in {"batch_loop", "batch_returned"} =>
        /\ successful + failed = Len(results)
        /\ Len(results) = batch_pos
        /\ \A k \in 1..Len(results) : MarkedByOutcome(results, k)
        /\ pc = "batch_returned" =>
              /\ Len(batch_response.results) = Len(requests)
              /\ batch_response.total = Len(requests)
              /\ batch_response.total = batch_response.successful + batch_response.failed
              /\ batch_response.successful =
                     Cardinality({k \in 1..Len(requests) : requests[k].outcome = "returns"})
              /\ \A k \in 1..Len(requests) : MarkedByOutcome(batch_response.results, k)

\* C27: batch_process handles the sub-requests one at a time in request
\* order and a failing sub-request never stops the batch: after every
\* sub-request successful + failed is the number of results so far, and on
\* return results has one entry per sub-request in request order, total ==
\* len(requests) == successful + failed, the k-th result marked success or
\* error by the k-th sub-request's own outcome.
C27_BatchComplete == []C27_Counts /\ <>(pc = "batch_returned")

\* C27 witness: a returned batch where a failed sub-request was followed by
\* one that succeeded
C27_Witness ==
    /\ pc = "batch_returned"
    /\ \E k \in 1..(Len(requests) - 1) :
          /\ batch_response.results[k].status = "error"
          /\ batch_response.results[k + 1].status = "success"

====
